---- MODULE Spec2Model ----
(***************************************************************************)
(* The file-backed message queue of claude-sidecar (lib/queue.ts): a lock  *)
(* file taken by exclusive create, reclaimed when its mtime is older than  *)
(* 5000 ms, and a JSON document read and rewritten under that lock.        *)
(* Processes interleave at the level of the fs calls of the source.  Time  *)
(* advances in steps of the 100 ms backoff while some acquirer waits, and  *)
(* by one long pause while a holder stalls; the synchronous fs calls of an *)
(* attempt and of the critical section take no time.                       *)
(***************************************************************************)
EXTENDS Integers, Sequences, FiniteSets, Bags, TLC

\* ---------------------------------------------------------------- bounds
NumProcs == 2        \* processes using the queue
MaxOps == 3          \* operations started in a concurrent run (Spec)
MaxSeqOps == 3       \* operations started in a sequential run (SpecSeq)
MaxTicks == 24       \* the clock stops at MaxTicks * 100 ms
RaceTicks == 2       \* ... at RaceTicks * 100 ms while two operations run
MaxCmdOps == 3       \* commands and operations started in a run of SpecCmd
MaxInitRuns == 2     \* runs of the init command (SpecInit)
MaxVoiceCalls == 3   \* calls of startListening and stopListening (SpecVoice)
MaxTranscripts == 2  \* transcripts received (SpecVoice)

\* ------------------------------------------------------ program constants
StaleMs == 5000      \* age > 5000 : stale lock
BackoffMs == 100     \* setTimeout(resolve, 100)
MaxRetries == 20     \* acquireLock(maxRetries = 20)

Procs == 1..NumProcs
Texts == {"a", "b"}

\* ------------------------------------------------------------ JSON values
\* A value JSON.parse can return.  Arrays carry their items; a message is
\* the object {text, timestamp}; timestamp is the clock in ms (the ISO
\* string of new Date() orders as the clock does).
JArr(items) == [t |-> "arr", items |-> items]
JNull == [t |-> "null"]
JObj == [t |-> "obj"]
JStr == [t |-> "str"]
Msg(text, ts) == [t |-> "msg", text |-> text, timestamp |-> ts]
ParseError == [t |-> "SyntaxError"]

\* ------------------------------------------------------- document content
\* The file content is a sequence of tokens; NoFile when the file is absent.
NoFile == <<[k |-> "ENOENT"]>>
LB == [k |-> "["]
RB == [k |-> "]"]
Comma == [k |-> ","]
Junk == [k |-> "junk"]
Val(v) == [k |-> "val", v |-> v]

RECURSIVE Join(_)
Join(items) ==
  IF Len(items) = 0 THEN <<>>
  ELSE IF Len(items) = 1 THEN <<Val(items[1])>>
  ELSE <<Val(items[1]), Comma>> \o Join(Tail(items))

\* JSON.stringify(messages, null, 2) of an array
Stringify(items) == <<LB>> \o Join(items) \o <<RB>>

\* the items between the brackets: value (, value)*
RECURSIVE ParseItems(_)
ParseItems(toks) ==
  IF Len(toks) = 0 THEN ParseError
  ELSE IF toks[1].k # "val" THEN ParseError
  ELSE IF Len(toks) = 1 THEN JArr(<<toks[1].v>>)
  ELSE IF toks[2].k # "," THEN ParseError
  ELSE LET rest == ParseItems(SubSeq(toks, 3, Len(toks)))
       IN IF rest = ParseError THEN ParseError
          ELSE JArr(<<toks[1].v>> \o rest.items)

\* JSON.parse(content)
JsonParse(toks) ==
  IF Len(toks) = 0 THEN ParseError
  ELSE IF Len(toks) = 1
    THEN IF toks[1].k = "val" THEN toks[1].v ELSE ParseError
  ELSE IF toks[1].k = "[" /\ toks[Len(toks)].k = "]"
    THEN IF Len(toks) = 2 THEN JArr(<<>>)
         ELSE ParseItems(SubSeq(toks, 2, Len(toks) - 1))
  ELSE ParseError

\* readMessages(): [] when the file is absent or does not parse
ReadMessages(d) ==
  IF d = NoFile THEN JArr(<<>>)
  ELSE IF JsonParse(d) = ParseError THEN JArr(<<>>)
  ELSE JsonParse(d)

\* messages.length > 0 (undefined > 0 is false; a string has a length)
LengthPositive(v) ==
  \/ v.t = "arr" /\ Len(v.items) > 0
  \/ v.t = "str"

\* getQueueSize(): messages.length, 0 on any error (null.length throws)
Undefined == [t |-> "undefined"]
StrLen == 3          \* the length of the string a string document holds
Num(n) == [t |-> "num", n |-> n]
GetQueueSize(d) ==
  IF d = NoFile THEN Num(0)
  ELSE LET v == JsonParse(d)
       IN IF v = ParseError \/ v.t = "null" THEN Num(0)
          ELSE IF v.t = "arr" THEN Num(Len(v.items))
          ELSE IF v.t = "str" THEN Num(StrLen)
          ELSE Undefined

\* ------------------------------------------------------------------ state
VARIABLES
  now,      \* Date.now() in ms
  lock,     \* the lock file: NoLock or [owner, mtime]
  doc,      \* the queue document: NoFile or its tokens
  pc,       \* per process: where it is in its operation
  op,       \* per process: the operation in progress [kind, text], whether
            \* no add/drain ended since it started, when it wrote
  i,        \* per process: acquireLock's loop counter
  msgs,     \* per process: the local `messages`
  err,      \* per process: an exception on its way out of the try block
  result,   \* per process: what its last operation returned or threw
  nops,     \* operations started so far
  doc0,     \* history: the document before the first operation
  enq,      \* history: the messages whose addMessage returned, in order
  got,      \* history: the messages getAndClearMessages returned, in order
  last,     \* history: kind and status of the last operation that ended
  peeked,   \* history: what a peek returned since the last add/drain ended
  stolen,   \* history: a live holder's lock file was unlinked by another
  stalled,  \* history: a holder stalled past the staleness threshold
  hook,     \* per process: the command it runs around its queue call, what
            \* it wrote to stdout and stderr, and its exit code
  settings, \* the host tool's settings: its directory and its file
  voice     \* the voice handler: its fields, its console, its last call

hist == <<doc0, enq, got, last, peeked, stolen, stalled>>
side == <<settings, voice>>
vars == <<now, lock, doc, pc, op, i, msgs, err, result, nops, hist, hook, side>>

\* no command: the process uses the queue directly
NoHook == [cmd |-> "none", phase |-> "none", stdout |-> <<>>, stderr |-> <<>>,
           code |-> 0]

\* ~/.claude does not exist
NoSettings == [dir |-> FALSE, file |-> [k |-> "ENOENT"]]

\* new RealtimeVoiceHandler(queue): ws = null, isListening = false,
\* isConnected = false, recording = null; nothing logged, no call made;
\* key: whether OPENAI_API_KEY is set in the environment of the process
NoCall == [op |-> "none", sox |-> FALSE, ffmpeg |-> FALSE]
VoiceHandler(key) ==
  [isListening |-> FALSE, isConnected |-> FALSE, ws |-> FALSE,
   recording |-> FALSE, sockets |-> 0, calls |-> 0, log |-> <<>>,
   key |-> key, last |-> NoCall]
NoVoice == VoiceHandler(FALSE)

NoLock == [owner |-> 0, mtime |-> 0, present |-> FALSE]
LockFile(p, t) == [owner |-> p, mtime |-> t, present |-> TRUE]

NoOp == [kind |-> "none", text |-> "-", fresh |-> FALSE, at |-> 0]
NoPeek == [t |-> "none"]
NoLast == [kind |-> "none", status |-> "none", proc |-> 0]
NoResult == [kind |-> "none", status |-> "none", value |-> Undefined]
LockError == "Could not acquire queue lock"
NoErr == "none"
TypeError == "TypeError"
WriteError == "EACCES"

Thrown(kind, e) == [kind |-> kind, status |-> "throw", value |-> [t |-> e]]
Returned(kind, v) == [kind |-> kind, status |-> "ok", value |-> v]

\* between a successful acquireLock and releaseLock
InCS(p) == pc[p] \in {"read", "write", "writing", "release"}
Acquiring(p) == pc[p] \in {"exists", "stat", "unlink", "create", "sleep", "lockfail"}
Quiet == \A p \in Procs : pc[p] \in {"idle", "crashed"}

\* ---------------------------------------------------------------- actions
\* A call of addMessage / getAndClearMessages / peekMessages enters
\* acquireLock with i = 0.
Call(p, kind, text) ==
  /\ pc[p] = "idle"
  /\ pc' = [pc EXCEPT ![p] = "exists"]
  /\ op' = [op EXCEPT ![p] =
              [kind |-> kind, text |-> text, fresh |-> TRUE, at |-> 0]]
  /\ i' = [i EXCEPT ![p] = 0]
  /\ nops' = nops + 1
  /\ UNCHANGED <<now, lock, doc, msgs, err, result, hist, side>>

\* a call made directly on the queue, outside any command
Start(p, kind, text) == Call(p, kind, text) /\ UNCHANGED hook

\* concurrent runs: the k-th operation started carries the k-th text
TextOf(k) == IF k % 2 = 0 THEN "a" ELSE "b"
AddMessage(p) == nops < MaxOps /\ Start(p, "add", TextOf(nops))
GetAndClearMessages(p) == nops < MaxOps /\ Start(p, "drain", "-")
PeekMessages(p) == nops < MaxOps /\ Start(p, "peek", "-")

\* sequential runs: an operation starts when no other is in progress
SeqAddMessage(p) ==
  Quiet /\ nops < MaxSeqOps /\ \E text \in Texts : Start(p, "add", text)
SeqGetAndClearMessages(p) == Quiet /\ nops < MaxSeqOps /\ Start(p, "drain", "-")
SeqPeekMessages(p) == Quiet /\ nops < MaxSeqOps /\ Start(p, "peek", "-")

\* a race: every process runs one operation
Once(p) == result[p] = NoResult
RaceAddMessage(p) == Once(p) /\ Start(p, "add", TextOf(p))
RaceGetAndClearMessages(p) == Once(p) /\ Start(p, "drain", "-")
RacePeekMessages(p) == Once(p) /\ Start(p, "peek", "-")

\* fs.existsSync(this.lockFile)
ExistsSync(p) ==
  /\ pc[p] = "exists"
  /\ pc' = [pc EXCEPT ![p] = IF lock.present THEN "stat" ELSE "create"]
  /\ UNCHANGED <<now, lock, doc, op, i, msgs, err, result, nops, hist, hook, side>>

\* a variant for which every lock file is stale
IsStaleAlways(age) == TRUE

\* a variant whose threshold is inclusive
IsStaleInclusive(age) == age >= StaleMs

\* a variant whose threshold is the threshold less the retry budget
IsStaleSooner(age) == age > StaleMs - MaxRetries * BackoffMs

\* age > 5000
IsStale(age) == age > StaleMs

\* fs.statSync(this.lockFile); age = Date.now() - mtimeMs; age > 5000.
\* statSync throws when the file is gone: the catch goes to the backoff.
StatSync(p) ==
  /\ pc[p] = "stat"
  /\ pc' = [pc EXCEPT ![p] =
       IF ~lock.present THEN "sleep"
       ELSE IF IsStale(now - lock.mtime) THEN "unlink"
       ELSE "create"]
  /\ UNCHANGED <<now, lock, doc, op, i, msgs, err, result, nops, hist, hook, side>>

\* fs.unlinkSync(this.lockFile) of the stale lock; a missing file is ignored
UnlinkStale(p) ==
  /\ pc[p] = "unlink"
  /\ lock' = NoLock
  /\ stolen' = (stolen \/ (lock.present /\ lock.owner \in Procs /\ InCS(lock.owner)))
  /\ pc' = [pc EXCEPT ![p] = "create"]
  /\ UNCHANGED <<now, doc, op, i, msgs, err, result, nops, doc0, enq, got, last, peeked, stalled, hook, side>>

\* a variant that writes the lock file without the exclusive flag
CreateLockNotExclusive(p) ==
  /\ pc[p] = "create"
  /\ pc' = [pc EXCEPT ![p] = "read"]
  /\ lock' = LockFile(p, now)
  /\ UNCHANGED <<now, doc, op, i, msgs, err, result, nops, hist, hook, side>>

\* fs.writeFileSync(this.lockFile, pid, { flag: "wx" }); return true
\* or EEXIST: the catch goes to the backoff.
CreateLock(p) ==
  /\ pc[p] = "create"
  /\ IF lock.present
       THEN /\ pc' = [pc EXCEPT ![p] = "sleep"]
            /\ lock' = lock
       ELSE /\ pc' = [pc EXCEPT ![p] = "read"]
            /\ lock' = LockFile(p, now)
  /\ UNCHANGED <<now, doc, op, i, msgs, err, result, nops, hist, hook, side>>

\* a variant that never gives up
AfterBackoffAgain(n) == "exists"

\* a variant that enters the try block when the retries are used up
AfterBackoffProceeds(n) == IF n + 1 < MaxRetries THEN "exists" ELSE "read"

\* after the backoff: i++ and the loop test i < maxRetries
AfterBackoff(n) == IF n + 1 < MaxRetries THEN "exists" ELSE "lockfail"

\* every pending setTimeout(resolve, 100) fires
Wake ==
  /\ pc' = [p \in Procs |->
              IF pc[p] = "sleep" THEN AfterBackoff(i[p]) ELSE pc[p]]
  /\ i' = [p \in Procs |-> IF pc[p] = "sleep" THEN i[p] + 1 ELSE i[p]]

\* the synchronous fs calls of every process have run to a wait
Settled == \A p \in Procs : pc[p] \in {"idle", "sleep", "read", "crashed"}

Running == {p \in Procs : pc[p] \notin {"idle", "crashed"}}
ClockLimit ==
  IF Cardinality(Running) > 1 THEN RaceTicks * BackoffMs
  ELSE MaxTicks * BackoffMs

\* 100 ms pass while some acquirer is in its backoff
Tick ==
  /\ now < ClockLimit
  /\ Settled
  /\ \E p \in Procs : pc[p] = "sleep"
  /\ now' = now + BackoffMs
  /\ Wake
  /\ UNCHANGED <<lock, doc, op, msgs, err, result, nops, hist, hook, side>>

\* a holder that has just acquired stalls past the staleness threshold
\* (it is alive, only slow); waiting acquirers wake late
Pause ==
  /\ now < ClockLimit
  /\ Settled
  /\ \E p \in Procs : pc[p] = "read"
  /\ now' = now + StaleMs + BackoffMs
  /\ Wake
  /\ stalled' = TRUE
  /\ UNCHANGED <<lock, doc, op, msgs, err, result, nops, doc0, enq, got, last, peeked, stolen, hook, side>>

\* acquireLock returned false: throw new Error("Could not acquire queue lock")
LockUnavailable(p) ==
  /\ pc[p] = "lockfail"
  /\ pc' = [pc EXCEPT ![p] = "idle"]
  /\ result' = [result EXCEPT ![p] = Thrown(op[p].kind, LockError)]
  /\ op' = [op EXCEPT ![p] = NoOp]
  /\ i' = [i EXCEPT ![p] = 0]
  /\ last' = [kind |-> op[p].kind, status |-> "throw", proc |-> p]
  /\ UNCHANGED <<now, lock, doc, msgs, err, nops, doc0, enq, got, peeked, stolen, stalled, hook, side>>

\* a variant whose drain writes [] whatever it read
AfterReadDrainWrites(kind, v) ==
  CASE kind = "add" -> IF v.t = "arr" THEN "write" ELSE "release"
    [] kind = "drain" -> "write"
    [] OTHER -> "release"

\* where the try block goes after const messages = this.readMessages()
AfterRead(kind, v) ==
  CASE kind = "add" -> IF v.t = "arr" THEN "write" ELSE "release"
    [] kind = "drain" -> IF LengthPositive(v) THEN "write" ELSE "release"
    [] OTHER -> "release"

\* messages.push is not a function / cannot read .length of null
ReadThrows(kind, v) ==
  CASE kind = "add" -> v.t # "arr"
    [] kind = "drain" -> v.t = "null"
    [] OTHER -> FALSE

\* a variant that answers from what the instance held in memory
ReadCached(p) ==
  /\ pc[p] = "read"
  /\ pc' = [pc EXCEPT ![p] = AfterRead(op[p].kind, msgs[p])]
  /\ UNCHANGED <<now, lock, doc, op, i, msgs, err, result, nops, hist, hook, side>>

\* const messages = this.readMessages()
Read(p) ==
  /\ pc[p] = "read"
  /\ LET v == ReadMessages(doc)
     IN /\ msgs' = [msgs EXCEPT ![p] = v]
        /\ pc' = [pc EXCEPT ![p] = AfterRead(op[p].kind, v)]
        /\ err' = [err EXCEPT ![p] =
                     IF ReadThrows(op[p].kind, v) THEN TypeError ELSE NoErr]
  /\ UNCHANGED <<now, lock, doc, op, i, result, nops, hist, hook, side>>

\* a variant that puts the new message first
PushFront(v, text, t) == JArr(<<Msg(text, t)>> \o v.items)

\* messages.push({ text: message, timestamp: new Date().toISOString() })
Push(v, text, t) == JArr(Append(v.items, Msg(text, t)))

\* a variant whose enqueue writes the empty sequence
WriteContentEmpty(kind, v, text, t) == Stringify(<<>>)

\* a variant whose drain writes back what it read
WriteContentKeeps(kind, v, text, t) ==
  IF kind = "add" THEN Stringify(Append(v.items, Msg(text, t)))
  ELSE Stringify(v.items)

\* what writeFileSync(this.queueFile, JSON.stringify(...)) stores
WriteContent(kind, v, text, t) ==
  IF kind = "add" THEN Stringify(Push(v, text, t).items)
  ELSE Stringify(<<>>)

\* addMessage: push and write; getAndClearMessages: write []
Write(p) ==
  /\ pc[p] = "write"
  /\ doc' = WriteContent(op[p].kind, msgs[p], op[p].text, now)
  /\ msgs' = [msgs EXCEPT ![p] =
                IF op[p].kind = "add" THEN Push(@, op[p].text, now) ELSE @]
  /\ op' = [op EXCEPT ![p].at = now]
  /\ pc' = [pc EXCEPT ![p] = "release"]
  /\ UNCHANGED <<now, lock, i, err, result, nops, hist, hook, side>>

\* writeFileSync seen at the level of its system calls: the file is opened
\* with flag "w", which creates it or truncates it to no content
Empty == <<>>
OpenTruncate(p) ==
  /\ pc[p] = "write"
  /\ doc' = Empty
  /\ pc' = [pc EXCEPT ![p] = "writing"]
  /\ UNCHANGED <<now, lock, op, i, msgs, err, result, nops, hist, hook, side>>

\* ... and the serialized messages are written to the open file
WriteData(p) ==
  /\ pc[p] = "writing"
  /\ doc' = WriteContent(op[p].kind, msgs[p], op[p].text, now)
  /\ msgs' = [msgs EXCEPT ![p] =
                IF op[p].kind = "add" THEN Push(@, op[p].text, now) ELSE @]
  /\ op' = [op EXCEPT ![p].at = now]
  /\ pc' = [pc EXCEPT ![p] = "release"]
  /\ UNCHANGED <<now, lock, i, err, result, nops, hist, hook, side>>

\* writeFileSync throws (the document cannot be written)
WriteFails(p) ==
  /\ pc[p] = "write"
  /\ err' = [err EXCEPT ![p] = WriteError]
  /\ pc' = [pc EXCEPT ![p] = "release"]
  /\ UNCHANGED <<now, lock, doc, op, i, msgs, result, nops, hist, hook, side>>

\* what the operation hands to its caller
Outcome(kind, e, v) ==
  IF e # NoErr THEN Thrown(kind, e)
  ELSE IF kind = "add" THEN Returned("add", Undefined)
  ELSE Returned(kind, v)

Items(v) == IF v.t = "arr" THEN v.items ELSE <<>>
SeqToBag(s) ==
  LET R == {s[k] : k \in 1..Len(s)}
  IN [m \in R |-> Cardinality({k \in 1..Len(s) : s[k] = m})]

\* a variant that leaves the lock file in place
ReleaseLockKeeps(l) == l

\* releaseLock(): fs.unlinkSync(this.lockFile), a missing file is ignored
ReleaseLock(l) == NoLock

\* finally { this.releaseLock() } and the return or rethrow
Release(p) ==
  LET out == Outcome(op[p].kind, err[p], msgs[p])
      ok == err[p] = NoErr
      mutator == op[p].kind \in {"add", "drain"}
  IN
  /\ pc[p] = "release"
  /\ lock' = ReleaseLock(lock)
  /\ pc' = [pc EXCEPT ![p] = "idle"]
  /\ result' = [result EXCEPT ![p] = out]
  /\ enq' = IF op[p].kind = "add" /\ ok
              THEN Append(enq, Msg(op[p].text, op[p].at))
            ELSE enq
  /\ got' = IF op[p].kind = "drain" /\ ok THEN got \o Items(msgs[p]) ELSE got
  /\ last' = [kind |-> op[p].kind, status |-> out.status, proc |-> p]
  /\ peeked' = IF mutator THEN NoPeek
               ELSE IF ok /\ op[p].fresh THEN out.value
               ELSE peeked
  /\ op' = [q \in Procs |->
              IF q = p THEN NoOp
              ELSE IF mutator THEN [op[q] EXCEPT !.fresh = FALSE]
              ELSE op[q]]
  /\ i' = [i EXCEPT ![p] = 0]
  /\ msgs' = [msgs EXCEPT ![p] = JArr(<<>>)]
  /\ err' = [err EXCEPT ![p] = NoErr]
  /\ UNCHANGED <<now, doc, nops, doc0, stolen, stalled, hook, side>>

\* the process dies between acquiring and releasing; the lock file stays
Crash(p) ==
  /\ InCS(p)
  /\ pc' = [pc EXCEPT ![p] = "crashed"]
  /\ op' = [op EXCEPT ![p] = NoOp]
  /\ i' = [i EXCEPT ![p] = 0]
  /\ msgs' = [msgs EXCEPT ![p] = JArr(<<>>)]
  /\ err' = [err EXCEPT ![p] = NoErr]
  /\ UNCHANGED <<now, lock, doc, result, nops, hist, hook, side>>

\* a variant that takes the lock file for its read
GetSizeLocking(p) ==
  /\ pc[p] = "idle"
  /\ ~lock.present
  /\ lock' = LockFile(p, now)
  /\ nops' = nops + 1
  /\ result' = [result EXCEPT ![p] = Returned("size", GetQueueSize(doc))]
  /\ last' = [kind |-> "size", status |-> "ok", proc |-> p]
  /\ UNCHANGED <<now, doc, pc, op, i, msgs, err, doc0, enq, got, peeked, stolen, stalled, hook, side>>

\* getQueueSize(): an unlocked read
GetSize(p) ==
  /\ pc[p] = "idle"
  /\ nops' = nops + 1
  /\ result' = [result EXCEPT ![p] = Returned("size", GetQueueSize(doc))]
  /\ last' = [kind |-> "size", status |-> "ok", proc |-> p]
  /\ UNCHANGED <<now, lock, doc, pc, op, i, msgs, err, doc0, enq, got, peeked, stolen, stalled, hook, side>>

Size(p) == nops < MaxOps /\ GetSize(p)
SeqSize(p) == Quiet /\ nops < MaxSeqOps /\ GetSize(p)


\* ---------------------------------------------------------------- commands
\* The hook handlers and the status and clear subcommands: one queue call,
\* then console output and the end of the process.
Banner == "=== User Feedback from Claude Sidecar ==="
Footer == "=========================================="

\* `[${idx + 1}/${messages.length}] ${msg.text}`
Numbered(k, n, text) == [idx |-> k, of |-> n, text |-> text]

\* msg.text: undefined on a value that is no message, a TypeError on null
TextOfItem(m) == IF m.t = "msg" THEN m.text ELSE "undefined"
TextThrows(m) == m.t = "null"

\* the lines messages.forEach writes until it ends or throws
RECURSIVE NumberedLines(_, _, _)
NumberedLines(items, k, n) ==
  IF k > Len(items) THEN <<>>
  ELSE IF TextThrows(items[k]) THEN <<>>
  ELSE <<Numbered(k, n, TextOfItem(items[k]))>> \o NumberedLines(items, k + 1, n)

\* messages.forEach is not a function, or its callback throws
ForEachThrows(v) ==
  \/ v.t # "arr"
  \/ \E k \in 1..Len(v.items) : TextThrows(v.items[k])

\* a variant that writes the banner and the footer whatever was drained
FeedbackAlways(v) == <<Banner, Footer>>

\* the console calls of the `if (messages.length > 0)` block
Feedback(v) ==
  IF ~LengthPositive(v) THEN <<>>
  ELSE IF v.t # "arr" THEN <<Banner>>
  ELSE <<Banner>> \o NumberedLines(v.items, 1, Len(v.items))
         \o (IF ForEachThrows(v) THEN <<>> ELSE <<Footer>>)

Exited(out, errs, code) ==
  [phase |-> "exited", stdout |-> out, stderr |-> errs, code |-> code]

\* a variant of the pre-step handler that writes to stdout and never blocks
HandlePreToolStepInforms(r) ==
  IF r.status = "throw" THEN Exited(<<>>, <<>>, 0)
  ELSE Exited(Feedback(r.value), <<>>, 0)

\* a variant of the pre-step handler that blocks when its drain fails
HandlePreToolStepFailsClosed(r) ==
  IF r.status = "throw" THEN Exited(<<>>, <<Banner>>, 2)
  ELSE IF ~LengthPositive(r.value) THEN Exited(<<>>, <<>>, 0)
  ELSE Exited(<<>>, Feedback(r.value), IF ForEachThrows(r.value) THEN 0 ELSE 2)

\* handlePreToolStep after its await: console.error, process.exit(2) inside
\* the try block, process.exit(0) after the catch
HandlePreToolStep(r) ==
  IF r.status = "throw" THEN Exited(<<>>, <<>>, 0)
  ELSE IF ~LengthPositive(r.value) THEN Exited(<<>>, <<>>, 0)
  ELSE Exited(<<>>, Feedback(r.value), IF ForEachThrows(r.value) THEN 0 ELSE 2)

\* a variant of the post-step handler that blocks as the pre-step one does
HandlePostToolStepBlocks(r) ==
  IF r.status = "throw" THEN Exited(<<>>, <<>>, 0)
  ELSE IF ~LengthPositive(r.value) THEN Exited(<<>>, <<>>, 0)
  ELSE Exited(<<>>, Feedback(r.value), 2)

\* handlePostToolStep after its await: console.log, process.exit(0)
HandlePostToolStep(r) ==
  IF r.status = "throw" THEN Exited(<<>>, <<>>, 0)
  ELSE Exited(Feedback(r.value), <<>>, 0)

\* an async action that rejects: the rejection is unhandled, the process
\* prints the error and ends with code 1
Unhandled(e) == Exited(<<>>, <<e>>, 1)
StatusHeader == "Claude Sidecar Queue Status"
Count(n) == [count |-> n]

\* messages.length of the value a call returned
LengthOf(v) ==
  IF v.t = "arr" THEN Num(Len(v.items))
  ELSE IF v.t = "str" THEN Num(StrLen)
  ELSE Undefined

\* the status action after its await
StatusAction(r) ==
  IF r.status = "throw" THEN Unhandled(r.value)
  ELSE IF r.value.t = "null"
    THEN [Unhandled([t |-> TypeError]) EXCEPT !.stdout = <<StatusHeader>>]
  ELSE IF LengthOf(r.value) = Num(0)
    THEN Exited(<<StatusHeader, "Queue is empty">>, <<>>, 0)
  ELSE IF ForEachThrows(r.value)
    THEN [Unhandled([t |-> TypeError]) EXCEPT !.stdout =
            <<StatusHeader, Count(LengthOf(r.value))>>
              \o (IF r.value.t = "arr"
                    THEN NumberedLines(r.value.items, 1, Len(r.value.items))
                    ELSE <<>>)]
  ELSE Exited(<<StatusHeader, Count(LengthOf(r.value))>>
                \o NumberedLines(r.value.items, 1, Len(r.value.items)), <<>>, 0)

\* the clear action after its await
ClearAction(r) ==
  IF r.status = "throw" THEN Unhandled(r.value)
  ELSE IF LengthOf(r.value) = Num(0)
    THEN Exited(<<"Queue was already empty">>, <<>>, 0)
  ELSE Exited(<<Count(LengthOf(r.value))>>, <<>>, 0)

\* the queue call each command makes
QueueCall(cmd) == IF cmd = "status" THEN "peek" ELSE "drain"

\* no call is in progress and no live command is between its call and its
\* end
Ready ==
  /\ Quiet
  /\ \A p \in Procs : pc[p] # "crashed" => hook[p].phase # "call"

\* a command starts: new MessageQueue() and its one queue call
Command(p, cmd) ==
  /\ Ready
  /\ nops < MaxCmdOps
  /\ Call(p, QueueCall(cmd), "-")
  /\ hook' = [hook EXCEPT ![p] =
       [cmd |-> cmd, phase |-> "call", stdout |-> <<>>, stderr |-> <<>>,
        code |-> 0]]

PreToolStep(p) == Command(p, "pre")
PostToolStep(p) == Command(p, "post")
StatusCommand(p) == Command(p, "status")
ClearCommand(p) == Command(p, "clear")

\* what the command does with the outcome of its call
Dispatch(cmd, r) ==
  CASE cmd = "pre" -> HandlePreToolStep(r)
    [] cmd = "post" -> HandlePostToolStep(r)
    [] cmd = "status" -> StatusAction(r)
    [] OTHER -> ClearAction(r)

\* the call has returned or thrown: the rest of the command, to its exit
Finish(p) ==
  /\ hook[p].phase = "call"
  /\ pc[p] = "idle"
  /\ hook' = [hook EXCEPT ![p] =
       [cmd |-> hook[p].cmd] @@ Dispatch(hook[p].cmd, result[p])]
  /\ UNCHANGED <<now, lock, doc, pc, op, i, msgs, err, result, nops, hist, side>>

\* the interactive session enqueues between commands
CmdAddMessage(p) == Ready /\ nops < MaxCmdOps /\ \E text \in Texts : Start(p, "add", text)

\* --------------------------------------------------------- init command
\* The settings file holds a JSON value.  An object carries its keys as
\* fields beside t; an array carries its items and, in memory, whatever
\* properties were assigned to it.  The strings under type, command and
\* matcher are kept as they are.
SidecarCommand == "claude-sidecar hook"
HookOf(c) == [t |-> "obj", type |-> "command", command |-> c]
SidecarHook == HookOf(SidecarCommand)
Entry(m, hs) == [t |-> "obj", matcher |-> m, hooks |-> JArr(hs)]
Wildcard == "*"

Absent == [k |-> "ENOENT"]
Garbled == [k |-> "junk"]
Text(v) == [k |-> "text", v |-> v]

\* v[k] of a value that is not null or undefined
Get(v, k) == IF v.t \in {"obj", "arr"} /\ k \in DOMAIN v THEN v[k] ELSE Undefined
\* v[k] = x of an object or an array
Set(v, k, x) == [f \in DOMAIN v \cup {k} |-> IF f = k THEN x ELSE v[f]]
Nullish(v) == v.t \in {"null", "undefined"}
Truthy(v) == v.t \in {"obj", "arr", "str"}
Has(v, k, str) == v.t = "obj" /\ k \in DOMAIN v /\ v[k] = str

\* Array.prototype.some over callbacks that return or throw: the outcome of
\* the first callback that does not return false
SomeOf(ks) ==
  LET D == {k \in 1..Len(ks) : ks[k] # "false"}
  IN IF D = {} THEN "false" ELSE ks[CHOOSE k \in D : \A j \in D : k <= j]

\* hook.command === "claude-sidecar hook"
HookMatches(h) ==
  IF Nullish(h) THEN "throw"
  ELSE IF Has(h, "command", SidecarCommand) THEN "true" ELSE "false"

\* entry.hooks?.some(...)
EntryMatches(e) ==
  IF Nullish(e) THEN "throw"
  ELSE LET hs == Get(e, "hooks")
       IN IF Nullish(hs) THEN "false"
          ELSE IF hs.t # "arr" THEN "throw"
          ELSE SomeOf([k \in 1..Len(hs.items) |-> HookMatches(hs.items[k])])

\* settings.hooks?.PostToolHook?.some(...)
HasExistingHook(s) ==
  IF Nullish(s) THEN "throw"
  ELSE LET h == Get(s, "hooks")
       IN IF Nullish(h) THEN "false"
          ELSE LET list == Get(h, "PostToolHook")
               IN IF Nullish(list) THEN "false"
                  ELSE IF list.t # "arr" THEN "throw"
                  ELSE SomeOf([k \in 1..Len(list.items) |->
                                 EntryMatches(list.items[k])])

\* if (!settings.hooks) settings.hooks = {}
WithHooks(s) == IF Truthy(Get(s, "hooks")) THEN s ELSE Set(s, "hooks", JObj)
\* if (!settings.hooks.PostToolHook) settings.hooks.PostToolHook = []
WithList(h) ==
  IF Truthy(Get(h, "PostToolHook")) THEN h
  ELSE Set(h, "PostToolHook", JArr(<<>>))

\* PostToolHook.find((entry) => entry.matcher === "*"): its index, or 0
WildcardMatcher(list) ==
  LET D == {k \in 1..Len(list) : Has(list[k], "matcher", Wildcard)}
  IN IF D = {} THEN 0 ELSE CHOOSE k \in D : \A j \in D : k <= j

\* the PostToolHook list with the sidecar hook added: a new wildcard entry
\* is pushed, or wildcardMatcher.hooks.push(...) after
\* if (!wildcardMatcher.hooks) wildcardMatcher.hooks = []
AddHook(list) ==
  LET w == WildcardMatcher(list)
      hs == IF Truthy(Get(list[w], "hooks")) THEN list[w].hooks ELSE JArr(<<>>)
  IN IF w = 0 THEN Append(list, Entry(Wildcard, <<SidecarHook>>))
     ELSE [list EXCEPT ![w] =
             Set(@, "hooks", [hs EXCEPT !.items = Append(@, SidecarHook)])]

\* the settings in memory when they are written
Configure(s) ==
  LET s1 == WithHooks(s)
      h1 == WithList(s1.hooks)
  IN Set(s1, "hooks",
         Set(h1, "PostToolHook",
             [h1.PostToolHook EXCEPT !.items = AddHook(@)]))

\* JSON.stringify: every key of an object, of an array its items alone
RECURSIVE Serialize(_)
Serialize(v) ==
  IF v.t = "arr"
    THEN JArr([k \in 1..Len(v.items) |-> Serialize(v.items[k])])
  ELSE IF v.t = "obj"
    THEN [f \in DOMAIN v |->
            IF f \in {"t", "type", "command", "matcher"} THEN v[f]
            ELSE Serialize(v[f])]
  ELSE v

Already == "Claude Sidecar hook already configured"
Configured == "Claude Sidecar successfully configured!"

\* the init action: the settings it leaves and how the process ends, given
\* the answers to its two prompts and whether the file can be written;
\* s is settings = {}, or JSON.parse(content) when the file exists and parses
InitAction(st, createDir, proceed, writable) ==
  LET made == [st EXCEPT !.dir = TRUE]
      s == IF st.file.k = "text" THEN st.file.v ELSE JObj
      has == HasExistingHook(s)
      end(state, run) == [settings |-> state, run |-> run]
  IN IF ~st.dir /\ ~createDir THEN end(st, Exited(<<"Setup cancelled">>, <<>>, 1))
     ELSE IF has = "throw" THEN end(made, Unhandled([t |-> TypeError]))
     ELSE IF has = "true" THEN end(made, Exited(<<Already>>, <<>>, 0))
     ELSE IF s.t = "str" \/ WithHooks(s).hooks.t = "str"
       THEN end(made, Unhandled([t |-> TypeError]))
     ELSE IF WildcardMatcher(WithList(WithHooks(s).hooks).PostToolHook.items) # 0
             /\ ~proceed
       THEN end(made, Exited(<<"Manual Setup Required">>, <<>>, 0))
     ELSE IF ~writable THEN end(made, Exited(<<"Failed to update settings", "Manual Setup Required">>,
                                       <<>>, 0))
     ELSE end([made EXCEPT !.file = Text(Serialize(Configure(s)))],
              Exited(<<Configured>>, <<>>, 0))

\* claude-sidecar init
InitCommand(p) ==
  /\ Quiet
  /\ nops < MaxInitRuns
  /\ \E createDir, proceed, writable \in BOOLEAN :
       LET r == InitAction(settings, createDir, proceed, writable)
       IN /\ settings' = r.settings
          /\ hook' = [hook EXCEPT ![p] = [cmd |-> "init"] @@ r.run]
  /\ nops' = nops + 1
  /\ UNCHANGED <<now, lock, doc, pc, op, i, msgs, err, result, hist, voice>>

\* --------------------------------------------------------- voice handler
KeyNotConfigured == "OpenAI API key not configured"

\* startListening(), given what `which sox` and `which ffmpeg` find and
\* whether the connection opens: checkDependencies, checkCredentials,
\* connect, startRecording
StartListening ==
  /\ voice.calls < MaxVoiceCalls
  /\ \E sox, ffmpeg, opens \in BOOLEAN :
       LET called == [voice EXCEPT !.calls = @ + 1,
                                   !.last = [op |-> "start", sox |-> sox,
                                             ffmpeg |-> ffmpeg]]
           says(h, line) == [h EXCEPT !.log = Append(@, line)]
           socket == [called EXCEPT !.ws = TRUE, !.sockets = @ + 1,
                                    !.isConnected = opens]
       IN voice' =
            IF ~(sox /\ ffmpeg) THEN says(called, "Missing required tools")
            ELSE IF ~voice.key THEN says(called, KeyNotConfigured)
            ELSE IF ~opens
              THEN says(socket, "Failed to connect to OpenAI Realtime API")
            ELSE says([socket EXCEPT !.isListening = TRUE, !.recording = TRUE],
                      "Voice input active (GPT-4o Realtime)")
  /\ UNCHANGED <<now, lock, doc, pc, op, i, msgs, err, result, nops, hist,
                 hook, settings>>

\* stopListening()
StopListening ==
  /\ voice.calls < MaxVoiceCalls
  /\ LET called == [voice EXCEPT !.calls = @ + 1,
                                 !.last = [NoCall EXCEPT !.op = "stop"]]
     IN voice' =
          IF ~voice.isListening THEN called
          ELSE [called EXCEPT !.isListening = FALSE, !.recording = FALSE,
                              !.ws = FALSE, !.isConnected = FALSE,
                              !.log = Append(@, "Voice input stopped")]
  /\ UNCHANGED <<now, lock, doc, pc, op, i, msgs, err, result, nops, hist,
                 hook, settings>>

\* a transcript arrives on the open connection: queueMessage(text)
Transcribed(p) ==
  /\ voice.ws /\ voice.isConnected
  /\ Quiet
  /\ nops < MaxTranscripts
  /\ \E text \in Texts : Start(p, "add", text)

\* ------------------------------------------------------------ specification
\* a lock file left by a holder that crashed earlier, of these ages
LockAged(a) == LockFile(0, 0 - a)
Old(text) == Msg(text, 0 - 1000)

InitQueue(locks, docs) ==
  /\ now = 0
  /\ lock \in locks
  /\ doc \in docs
  /\ pc = [p \in Procs |-> "idle"]
  /\ op = [p \in Procs |-> NoOp]
  /\ i = [p \in Procs |-> 0]
  /\ msgs = [p \in Procs |-> JArr(<<>>)]
  /\ err = [p \in Procs |-> NoErr]
  /\ result = [p \in Procs |-> NoResult]
  /\ nops = 0
  /\ doc0 = doc
  /\ enq = <<>>
  /\ got = <<>>
  /\ last = NoLast
  /\ peeked = NoPeek
  /\ stolen = FALSE
  /\ stalled = FALSE
  /\ hook = [p \in Procs |-> NoHook]

\* the queue alone: no settings directory, a voice handler just constructed
InitWith(locks, docs) ==
  /\ InitQueue(locks, docs)
  /\ settings = NoSettings
  /\ voice = NoVoice

\* concurrent processes
Init ==
  InitWith({NoLock, LockAged(0), LockAged(StaleMs + BackoffMs)},
           {NoFile, Stringify(<<Old("a")>>)})

Step(p) ==
  \/ ExistsSync(p)
  \/ StatSync(p)
  \/ UnlinkStale(p)
  \/ CreateLock(p)
  \/ LockUnavailable(p)
  \/ Read(p)
  \/ Write(p)
  \/ WriteFails(p)
  \/ Release(p)

Next ==
  \/ \E p \in Procs : AddMessage(p)
  \/ \E p \in Procs : GetAndClearMessages(p)
  \/ \E p \in Procs : PeekMessages(p)
  \/ \E p \in Procs : Size(p)
  \/ \E p \in Procs : Step(p)
  \/ \E p \in Procs : Crash(p)
  \/ Tick
  \/ Pause

Spec == Init /\ [][Next]_vars

\* one operation at a time, over every lock age around the threshold
SeqLocks ==
  {NoLock, LockAged(0), LockAged(StaleMs - BackoffMs), LockAged(StaleMs),
   LockAged(StaleMs + BackoffMs)}
DocsValid == {NoFile, Stringify(<<>>), Stringify(<<Old("b"), Old("a")>>)}

InitSeq == InitWith(SeqLocks, DocsValid)

NextSeq ==
  \/ \E p \in Procs : SeqAddMessage(p)
  \/ \E p \in Procs : SeqGetAndClearMessages(p)
  \/ \E p \in Procs : SeqPeekMessages(p)
  \/ \E p \in Procs : SeqSize(p)
  \/ \E p \in Procs : Step(p)
  \/ Tick

SpecSeq == InitSeq /\ [][NextSeq]_vars

\* a race of one operation per process, no lock file beforehand
InitRace ==
  InitWith({NoLock}, {NoFile, Stringify(<<Old("a")>>),
                      Stringify(<<Old("b"), Old("a")>>)})

NextRace ==
  \/ \E p \in Procs : RaceAddMessage(p)
  \/ \E p \in Procs : RaceGetAndClearMessages(p)
  \/ \E p \in Procs : RacePeekMessages(p)
  \/ \E p \in Procs : Step(p)
  \/ \E p \in Procs : Crash(p)
  \/ Tick
  \/ Pause

SpecRace == InitRace /\ [][NextRace]_vars

\* one operation at a time, over documents that are not a message sequence
DocsCorrupt ==
  {<<>>, <<Junk>>, <<LB, Val(Old("a"))>>, <<Val(JNull)>>, <<Val(JObj)>>,
   <<Val(JStr)>>, Stringify(<<JNull>>), Stringify(<<Old("a"), JObj>>)}

InitCorrupt ==
  InitWith({NoLock, LockAged(0), LockAged(StaleMs + BackoffMs)},
           DocsCorrupt \cup {NoFile})

SpecCorrupt == InitCorrupt /\ [][NextSeq]_vars


\* commands and enqueues, one at a time, over valid and corrupt documents
DocsCmd ==
  {NoFile, Stringify(<<Old("b"), Old("a")>>), <<Junk>>, <<Val(JNull)>>,
   <<Val(JStr)>>, Stringify(<<Old("a"), JNull>>)}

InitCmd ==
  InitWith({NoLock, LockAged(0), LockAged(StaleMs + BackoffMs)}, DocsCmd)

NextCmd ==
  \/ \E p \in Procs : PreToolStep(p)
  \/ \E p \in Procs : PostToolStep(p)
  \/ \E p \in Procs : StatusCommand(p)
  \/ \E p \in Procs : ClearCommand(p)
  \/ \E p \in Procs : CmdAddMessage(p)
  \/ \E p \in Procs : Step(p)
  \/ \E p \in Procs : Finish(p)
  \/ Tick

SpecCmd == InitCmd /\ [][NextCmd]_vars

\* enqueues of concurrent sessions, then the hooks of the checkpoint
NoCommand == \A p \in Procs : hook[p].phase = "none"
SessionAddMessage(p) ==
  nops < MaxCmdOps /\ NoCommand /\ Start(p, "add", TextOf(nops))

InitSessions ==
  InitWith({NoLock, LockAged(0), LockAged(StaleMs + BackoffMs)},
           {NoFile, Stringify(<<Old("a")>>)})

NextSessions ==
  \/ \E p \in Procs : SessionAddMessage(p)
  \/ \E p \in Procs : PreToolStep(p)
  \/ \E p \in Procs : PostToolStep(p)
  \/ \E p \in Procs : Step(p)
  \/ \E p \in Procs : Finish(p)
  \/ Tick

SpecSessions == InitSessions /\ [][NextSessions]_vars

\* processes that keep calling the queue: timers always fire, a caller that
\* finds a lock file left behind calls again, and one process stays alive
Elapse ==
  /\ Settled
  /\ \E p \in Procs : pc[p] = "sleep"
  /\ now' = now + BackoffMs
  /\ Wake
  /\ UNCHANGED <<lock, doc, op, msgs, err, result, nops, hist, hook, side>>

Retry(p) ==
  /\ Ready
  /\ lock.present
  /\ \E kind \in {"add", "peek"} : Start(p, kind, "a")

Alive == {p \in Procs : pc[p] # "crashed"}
CrashOne(p) == Alive # {p} /\ Crash(p)

InitLive ==
  InitWith({NoLock, LockAged(0)}, {Stringify(<<Old("a")>>)})

NextLive ==
  \/ \E p \in Procs : PreToolStep(p)
  \/ \E p \in Procs : PostToolStep(p)
  \/ \E p \in Procs : Retry(p)
  \/ \E p \in Procs : Step(p)
  \/ \E p \in Procs : Finish(p)
  \/ \E p \in Procs : CrashOne(p)
  \/ Elapse

\* a running process executes its next statement, a pending timer fires,
\* and a caller that found the lock taken calls again
Fairness ==
  /\ \A p \in Procs : WF_vars(Step(p))
  /\ \A p \in Procs : WF_vars(Finish(p))
  /\ \A p \in Procs : WF_vars(Retry(p))
  /\ WF_vars(Elapse)

SpecLive == InitLive /\ [][NextLive]_vars /\ Fairness

\* getQueueSize called by one process while another runs its operations
InitSize ==
  InitWith({NoLock, LockAged(0), LockAged(StaleMs + BackoffMs)},
           {NoFile, <<Junk>>, <<LB, Val(Old("a"))>>, Stringify(<<Old("a")>>)})

NextSize ==
  \/ \E p \in Procs : SeqAddMessage(p)
  \/ \E p \in Procs : SeqGetAndClearMessages(p)
  \/ \E p \in Procs : Size(p)
  \/ \E p \in Procs : Step(p)
  \/ Tick

SpecSize == InitSize /\ [][NextSize]_vars

\* concurrent processes, with writeFileSync as open-and-truncate, then write
StepFile(p) ==
  \/ ExistsSync(p)
  \/ StatSync(p)
  \/ UnlinkStale(p)
  \/ CreateLock(p)
  \/ LockUnavailable(p)
  \/ Read(p)
  \/ OpenTruncate(p)
  \/ WriteData(p)
  \/ WriteFails(p)
  \/ Release(p)

InitFile ==
  InitWith({NoLock, LockAged(StaleMs + BackoffMs)},
           {NoFile, Stringify(<<Old("a")>>)})

NextFile ==
  \/ \E p \in Procs : RaceAddMessage(p)
  \/ \E p \in Procs : RaceGetAndClearMessages(p)
  \/ \E p \in Procs : RacePeekMessages(p)
  \/ \E p \in Procs : StepFile(p)
  \/ \E p \in Procs : Crash(p)
  \/ Tick

SpecFile == InitFile /\ [][NextFile]_vars

\* one operation at a time, over a document that exists and cannot be read:
\* readFileSync throws EACCES, which readMessages and getQueueSize catch as
\* they catch a SyntaxError of JSON.parse
Denied == [k |-> "EACCES"]
NoAccess == <<Denied>>

InitStorage ==
  InitWith({NoLock, LockAged(0), LockAged(StaleMs + BackoffMs)},
           {NoAccess, Stringify(<<Old("a")>>)})

SpecStorage == InitStorage /\ [][NextSeq]_vars

\* one operation at a time against an abandoned lock file whose age is around
\* the threshold less the retry budget, and around the threshold
BudgetMs == MaxRetries * BackoffMs
BudgetLocks ==
  {LockAged(0),
   LockAged(StaleMs - BudgetMs - BackoffMs), LockAged(StaleMs - BudgetMs),
   LockAged(StaleMs - BudgetMs + BackoffMs),
   LockAged(StaleMs - BudgetMs + 2 * BackoffMs),
   LockAged(StaleMs), LockAged(StaleMs + BackoffMs)}
InitBudget == InitWith(BudgetLocks, DocsValid)
SpecBudget == InitBudget /\ [][NextSeq]_vars

\* the interactive producer: one process whose "line" handler runs once per
\* line typed, each run calling addMessage without waiting for the run
\* before it.  Slot 1 is the run for the first line, slot 2 the run for the
\* second; a lock file of owner 0 belongs to another, live process.  The
\* runs share one thread: a run keeps it from one await to the next, and
\* timers set for the same delay fire in the order they were set.
LineA == 1
LineB == 2
AtAwait(q) == pc[q] \in {"idle", "sleep"}
TimerPending(q) == pc[q] = "exists" /\ i[q] > 0
Resuming(q) == pc[q] = "read"

\* rl.on("line", ...) for the first line: addMessage("a")
FirstLine == nops = 0 /\ Start(LineA, "add", "a")

\* ... for the second line, while the first run is at an await or has ended
SecondLine ==
  /\ nops = 1
  /\ AtAwait(LineA) \/ Resuming(LineA)
  /\ Start(LineB, "add", "b")

\* the run for the first line continues: its timer fires before the second
\* run's, and its continuation after acquireLock follows the synchronous
\* part of a second line event
ProducerStepA ==
  /\ AtAwait(LineB) \/ TimerPending(LineB)
  /\ Step(LineA)

\* the run for the second line continues
ProducerStepB ==
  /\ AtAwait(LineA) \/ (Resuming(LineA) /\ i[LineB] = 0)
  /\ Step(LineB)

\* timers fire once no continuation is left to run
ProducerTick == (\A q \in Procs : ~Resuming(q)) /\ Tick

\* the other process ends its operation: releaseLock()
HolderReleases ==
  /\ lock.present /\ lock.owner = 0
  /\ lock' = ReleaseLock(lock)
  /\ UNCHANGED <<now, doc, pc, op, i, msgs, err, result, nops, hist, hook, side>>

InitProducer ==
  InitWith({NoLock, LockAged(0)}, {NoFile, Stringify(<<Old("a")>>)})

NextProducer ==
  \/ FirstLine
  \/ SecondLine
  \/ ProducerStepA
  \/ ProducerStepB
  \/ ProducerTick
  \/ HolderReleases

SpecProducer == InitProducer /\ [][NextProducer]_vars

\* runs of the init command over settings files of every shape
Lint == HookOf("lint")
Entries ==
  {Entry("Bash", <<Lint>>), Entry(Wildcard, <<Lint>>),
   Entry(Wildcard, <<SidecarHook>>), [t |-> "obj", matcher |-> Wildcard]}
SettingsValues ==
  {[t |-> "obj", hooks |-> [t |-> "obj", PostToolHook |-> JArr(l)]] :
     l \in {<<>>} \cup {<<e>> : e \in Entries}
             \cup {<<e, f>> : e \in Entries, f \in Entries}}
  \cup
  {JObj, [t |-> "obj", model |-> JStr],
   [t |-> "obj", hooks |-> JObj],
   [t |-> "obj", hooks |-> JNull],
   [t |-> "obj", hooks |-> JStr],
   [t |-> "obj", hooks |-> JArr(<<>>)],
   [t |-> "obj", hooks |-> [t |-> "obj", PreToolUse |-> JArr(<<Entry(Wildcard, <<SidecarHook>>)>>)]],
   [t |-> "obj", hooks |-> [t |-> "obj", PostToolHook |-> JNull]],
   [t |-> "obj", hooks |-> [t |-> "obj", PostToolHook |-> JObj]],
   [t |-> "obj", hooks |-> [t |-> "obj", PostToolHook |-> JArr(<<JNull>>)]],
   [t |-> "obj", hooks |->
      [t |-> "obj", PostToolHook |-> JArr(<<Entry(Wildcard, <<JNull>>)>>)]],
   [t |-> "obj", hooks |->
      [t |-> "obj", PostToolHook |->
         JArr(<<[t |-> "obj", matcher |-> Wildcard, hooks |-> JStr]>>)]],
   JNull, JStr, JArr(<<>>)}
SettingsStates ==
  {NoSettings, [dir |-> TRUE, file |-> Absent], [dir |-> TRUE, file |-> Garbled]}
  \cup {[dir |-> TRUE, file |-> Text(v)] : v \in SettingsValues}

InitInit ==
  /\ InitQueue({NoLock}, {NoFile})
  /\ settings \in SettingsStates
  /\ voice = NoVoice

NextInit == \E p \in Procs : InitCommand(p)

SpecInit == InitInit /\ [][NextInit]_vars

\* the voice handler of a session, with and without the credential
InitVoice ==
  /\ InitQueue({NoLock, LockAged(0), LockAged(StaleMs + BackoffMs)},
               {NoFile, Stringify(<<Old("a")>>)})
  /\ settings = NoSettings
  /\ voice \in {VoiceHandler(key) : key \in BOOLEAN}

NextVoice ==
  \/ StartListening
  \/ StopListening
  \/ \E p \in Procs : Transcribed(p)
  \/ \E p \in Procs : Step(p)
  \/ Tick

SpecVoice == InitVoice /\ [][NextVoice]_vars

\* ----------------------------------------------------------------- claims
AllIdle == \A p \in Procs : pc[p] = "idle"
Holders == {p \in Procs : InCS(p)}
Stored == Items(ReadMessages(doc))
Stored0 == Items(ReadMessages(doc0))

\* C1: at most one operation is between its successful acquireLock and its
\* releaseLock, also while several acquirers reclaim a stale lock file
\* (stated for the runs in which no holder stalls past the threshold, the
\* risk the design accepts: the claim fails even there).
C1_MutualExclusion == ~stalled => Cardinality(Holders) <= 1

\* the calls of a race that have ended, and those that returned
Ended(kind) == {p \in Procs : pc[p] = "idle" /\ result[p].kind = kind}
ReturnedOk(kind) == {p \in Ended(kind) : result[p].status = "ok"}
DrainRace ==
  /\ \A p \in Procs : pc[p] = "idle" /\ result[p].kind \in {"drain", "none"}
  /\ Cardinality(ReturnedOk("drain")) >= 2
  /\ ReturnedOk("drain") = Ended("drain")
  /\ Stored0 # <<>>

\* one call returned every message and emptied the document, the others
\* returned the empty sequence
OneDrainGetsAll ==
  /\ \E first \in Procs :
       /\ result[first] = Returned("drain", JArr(Stored0))
       /\ \A q \in ReturnedOk("drain") \ {first} :
            result[q] = Returned("drain", JArr(<<>>))
  /\ doc = Stringify(<<>>)
  /\ got = Stored0

C3_Conservation ==
  (AllIdle /\ ~stalled) => SeqToBag(Stored0 \o enq) = SeqToBag(got \o Stored)

Texts_(s) == [k \in 1..Len(s) |-> s[k].text]
NonDecreasing(s) ==
  \A j, k \in 1..Len(s) : j <= k => s[j].timestamp <= s[k].timestamp
LastResult == result[last.proc]
Ok(kind) == Quiet /\ last = [kind |-> kind, status |-> "ok", proc |-> last.proc]

\* C4: after enqueues issued one after another to an initially empty queue
\* (and no drain), a peek returns exactly the messages of the enqueues that
\* returned, texts unchanged, in call order, with non-decreasing timestamps.
C4_PeekAfterEnqueues ==
  (Ok("peek") /\ Stored0 = <<>> /\ got = <<>>) =>
     /\ LastResult = Returned("peek", JArr(enq))
     /\ NonDecreasing(LastResult.value.items)

\* C4 witness: two enqueues with different texts, then the peek.
C4_Witness ==
  /\ Ok("peek") /\ Stored0 = <<>> /\ got = <<>>
  /\ Len(enq) = 2 /\ Texts_(enq) = <<"b", "a">>

\* C5: a successful drain returns all stored messages in stored order and
\* leaves the queue empty (also when it was empty); a peek or drain that
\* follows a successful drain with nothing in between returns the empty
\* sequence.
C5_DrainIdempotent ==
  /\ Ok("drain") =>
       /\ got = Stored0 \o enq
       /\ Stored = <<>>
       /\ LastResult.status = "ok"
       /\ LastResult.value.t = "arr"
       /\ \E k \in 0..Len(got) :
            LastResult.value.items = SubSeq(got, k + 1, Len(got))
  /\ \A p \in Procs :
       (/\ pc[p] = "release"
        /\ op[p].kind \in {"peek", "drain"}
        /\ last.kind = "drain" /\ last.status = "ok") =>
          Outcome(op[p].kind, err[p], msgs[p]) = Returned(op[p].kind, JArr(<<>>))

\* C5 witness: a drain returned two messages and the peek after it is about
\* to return.
C5_Witness ==
  /\ Len(got) = 2 /\ nops = 2
  /\ last.kind = "drain" /\ last.status = "ok"
  /\ \E p \in Procs : pc[p] = "release" /\ op[p].kind = "peek"

NoCrash == \A p \in Procs : pc[p] # "crashed"

\* C6: two peeks with no enqueue or drain ending from the start of the first
\* to the return of the second return the same sequence (stated for the runs
\* in which no process crashes and no holder stalls past the threshold).
C6_PeeksAgree ==
  \A p \in Procs :
    (/\ NoCrash /\ ~stalled
     /\ pc[p] = "release" /\ op[p].kind = "peek" /\ op[p].fresh
     /\ peeked # NoPeek) =>
       Outcome("peek", err[p], msgs[p]).value = peeked

LockAge == now - lock.mtime

\* C7: an acquire attempt deletes the lock file only when its age is
\* strictly greater than 5000 ms, and an attempt fails only against a lock
\* file of age 5000 ms or less: a lock file older than that is deleted and
\* the lock obtained on the same attempt, and the enqueue stores its message.
C7_StaleLockRecovery ==
  /\ \A p \in Procs :
       /\ pc[p] = "unlink" => (lock.present /\ LockAge > StaleMs)
       /\ (pc[p] = "create" /\ lock.present) => LockAge <= StaleMs
       /\ pc[p] = "sleep" => (lock.present /\ LockAge <= StaleMs)
       /\ pc[p] = "lockfail" => (lock.present /\ LockAge - BackoffMs <= StaleMs)
  /\ (Ok("add") /\ enq # <<>> /\ Stored # <<>>) =>
       Stored[Len(Stored)] = enq[Len(enq)]

\* C7 witness: the first attempt of an enqueue found a lock file aged exactly
\* 5000 ms and left it, the second found it aged 5100 ms, deleted it and
\* obtained the lock, and the enqueue returned.
C7_Witness ==
  /\ Ok("add") /\ nops = 1 /\ now = BackoffMs
  /\ Len(enq) = 1 /\ Stored = Stored0 \o enq

\* C8: an operation that does not obtain the lock makes all its attempts,
\* fails with "Could not acquire queue lock" and leaves the document as it
\* was; an operation enters its try block only by creating the lock file
\* when none is present.
C8_LockUnavailable ==
  [][\A p \in Procs :
       Acquiring(p) =>
         /\ doc' = doc
         /\ pc'[p] = "idle" =>
              /\ i[p] = MaxRetries
              /\ result'[p] = Thrown(op[p].kind, LockError)
         /\ pc'[p] = "read" => (~lock.present /\ lock' = LockFile(p, now))]_vars

\* C8 witness: a drain of a non-empty queue failed against a lock file that
\* stayed fresh over the twenty attempts.
C8_Witness ==
  /\ Quiet /\ last.kind = "drain"
  /\ LastResult = Thrown("drain", LockError)
  /\ Stored # <<>> /\ doc = doc0
  /\ now = MaxRetries * BackoffMs

\* C9: whenever no operation is in progress and no process has crashed, the
\* lock file is absent: every operation that obtained the lock removed the
\* lock file before it returned or threw, also when the write failed.
C9_GuaranteedRelease == AllIdle => ~lock.present

\* C9 witness: an enqueue threw because the document could not be written.
C9_Witness ==
  /\ AllIdle
  /\ \E p \in Procs : result[p] = Thrown("add", WriteError)

\* the document is a serialized sequence of messages
ValidDoc(d) ==
  /\ d # NoFile
  /\ JsonParse(d) # ParseError
  /\ JsonParse(d).t = "arr"
  /\ \A k \in 1..Len(JsonParse(d).items) : JsonParse(d).items[k].t = "msg"

\* C10: when the document is absent or is not a serialized sequence of
\* messages, a peek that obtained the lock returns the empty sequence and
\* size returns 0.
C10_CorruptIsEmpty ==
  (Quiet /\ ~ValidDoc(doc)) =>
     /\ (last.kind = "peek" /\ LastResult # Thrown("peek", LockError)) =>
          LastResult = Returned("peek", JArr(<<>>))
     /\ last.kind = "size" => LastResult = Returned("size", Num(0))

\* a command of this kind has ended and its drain's outcome is still recorded
HookDone(p, cmd) ==
  /\ hook[p].cmd = cmd /\ hook[p].phase = "exited"
  /\ result[p].kind = "drain"
Drained(p) == result[p].value
AllMessages(v) ==
  /\ v.t = "arr"
  /\ \A k \in 1..Len(v.items) : v.items[k].t = "msg"

\* the banner, one line [k/N] text per message in order, the footer
Expected(v) ==
  <<Banner>>
    \o [k \in 1..Len(v.items) |->
          [idx |-> k, of |-> Len(v.items), text |-> v.items[k].text]]
    \o <<Footer>>
Silent(p) == hook[p].stdout = <<>> /\ hook[p].stderr = <<>>
DrainedMessages(p) ==
  /\ result[p].status = "ok"
  /\ AllMessages(Drained(p))
  /\ Len(Drained(p).items) >= 1

\* C11: a pre-step hook whose drain returned N >= 1 messages wrote to stderr
\* the banner, the lines [i/N] text in drain order and the footer, wrote
\* nothing to stdout and exited with code 2; a peek that follows it with no
\* enqueue in between returns the empty sequence.
C11_PreStepWithMessages ==
  /\ \A p \in Procs :
       (HookDone(p, "pre") /\ DrainedMessages(p)) =>
          /\ hook[p].stderr = Expected(Drained(p))
          /\ hook[p].stdout = <<>>
          /\ hook[p].code = 2
  /\ \A q \in Procs :
       (/\ pc[q] = "release" /\ op[q].kind = "peek"
        /\ last.kind = "drain" /\ last.status = "ok"
        /\ HookDone(last.proc, "pre") /\ DrainedMessages(last.proc)) =>
          Outcome("peek", err[q], msgs[q]) = Returned("peek", JArr(<<>>))

\* C11 witness: a pre-step hook drained two messages and exited, and the
\* peek of another process is about to return.
C11_Witness ==
  \E p, q \in Procs :
    /\ HookDone(p, "pre") /\ DrainedMessages(p)
    /\ Len(hook[p].stderr) = 4
    /\ last.proc = p
    /\ pc[q] = "release" /\ op[q].kind = "peek"

\* C12: a hook of either variant whose drain returned the empty sequence
\* wrote nothing to stderr or stdout and exited with code 0.
C12_EmptyQueueSilent ==
  \A p \in Procs :
    (/\ HookDone(p, "pre") \/ HookDone(p, "post")
     /\ result[p] = Returned("drain", JArr(<<>>))) =>
       (Silent(p) /\ hook[p].code = 0)

\* C12 witness: each variant has run on an empty queue.
C12_Witness ==
  \E p, q \in Procs :
    /\ HookDone(p, "pre") /\ result[p] = Returned("drain", JArr(<<>>))
    /\ HookDone(q, "post") /\ result[q] = Returned("drain", JArr(<<>>))

C14_PostStepNeverBlocks ==
  \A p \in Procs :
    (hook[p].cmd = "post" /\ hook[p].phase = "exited") =>
       /\ hook[p].code = 0
       /\ hook[p].stderr = <<>>
       /\ (result[p].kind = "drain" /\ DrainedMessages(p)) =>
            hook[p].stdout = Expected(Drained(p))

\* C14 witness: a post-step hook drained two messages.
C14_Witness ==
  \E p \in Procs :
    /\ HookDone(p, "post") /\ DrainedMessages(p)
    /\ Len(hook[p].stdout) = 4

\* what a hook wrote, on the stream of its variant
Output(p) == IF hook[p].cmd = "pre" THEN hook[p].stderr ELSE hook[p].stdout

\* C15: a hook that starts after the enqueues have returned, whose drain
\* succeeds and is the only drain so far, writes every message of the initial
\* document and of the enqueues that returned, and leaves none in the queue.
C15_DeliveryAtCheckpoint ==
  \A p \in Procs :
    (/\ HookDone(p, "pre") \/ HookDone(p, "post")
     /\ result[p].status = "ok"
     /\ last.proc = p /\ last.kind = "drain"
     /\ got = Items(Drained(p))) =>
       /\ SeqToBag(Items(Drained(p))) = SeqToBag(Stored0 \o enq)
       /\ Stored0 \o enq # <<>> => Output(p) = Expected(Drained(p))
       /\ Stored = <<>>

\* C16: an acquisition makes at most MaxRetries attempts, gives up only
\* after MaxRetries of them, and every acquisition in progress ends, with the
\* lock obtained or with the failure, also while the lock file stays in place.
AttemptsBounded ==
  \A p \in Procs :
    /\ i[p] <= MaxRetries
    /\ pc[p] \in {"exists", "stat", "unlink", "create", "sleep"} =>
         i[p] < MaxRetries
    /\ pc[p] = "lockfail" => i[p] = MaxRetries
C16_BoundedAcquisition ==
  /\ []AttemptsBounded
  /\ \A p \in Procs : Acquiring(p) ~> ~Acquiring(p)

\* C16 witness: a caller used up its attempts against a lock file that is
\* still in place.
C16_Witness ==
  \E p \in Procs :
    pc[p] = "lockfail" /\ i[p] = MaxRetries /\ lock.present /\ lock.owner # p

\* the two terminal states of a hook
SignalCode(cmd) == IF cmd = "pre" THEN 2 ELSE 0
ExitClean(p) == Silent(p) /\ hook[p].code = 0
ExitSignal(p) ==
  /\ AllMessages(Drained(p))
  /\ Output(p) = Expected(Drained(p))
  /\ Len(hook[p].stdout) + Len(hook[p].stderr) = Len(Output(p))
  /\ hook[p].code = SignalCode(hook[p].cmd)

\* C17: a hook that has exited made one drain and is in ExitClean when the
\* drain failed or returned nothing, and in ExitSignal when the drain
\* returned something, whatever the lock file and the document were.
C17_HookStateMachine ==
  \A p \in Procs :
    (HookDone(p, "pre") \/ HookDone(p, "post")) =>
       IF result[p].status = "throw" \/ ~LengthPositive(Drained(p))
         THEN ExitClean(p)
         ELSE ExitSignal(p)

\* every hook that was invoked exits, unless its process is killed
C17_HookTerminates ==
  \A p \in Procs :
    hook[p].phase = "call" ~> (hook[p].phase = "exited" \/ pc[p] = "crashed")

\* the lock file of a holder that crashed between acquiring and releasing
Abandoned(p) == pc[p] = "crashed" /\ lock.present /\ lock.owner = p
Reclaimed(p) == \E q \in Procs \ {p} : InCS(q) /\ lock.present /\ lock.owner = q

\* C18: the lock file of a crashed holder is taken away only when it is
\* older than StaleMs, and while live processes keep calling the queue some
\* later operation acquires the lock.
C18_NoPermanentDeadlock ==
  /\ [][\A p \in Procs :
          (Abandoned(p) /\ ~Abandoned(p)') => now - lock.mtime > StaleMs]_vars
  /\ \A p \in Procs : Abandoned(p) ~> Reclaimed(p)

\* C18 witness: a holder crashed in its critical section, its lock file
\* grew older than StaleMs, and another process holds the lock.
C18_Witness ==
  \E p \in Procs :
    /\ pc[p] = "crashed" /\ Reclaimed(p)
    /\ now - lock.mtime < BackoffMs
    /\ now > StaleMs

\* C19: a status or clear command that has ended exited with code 0,
\* whatever its queue call returned or threw.
C19_StatusClearExitZero ==
  \A p \in Procs :
    (hook[p].cmd \in {"status", "clear"} /\ hook[p].phase = "exited") =>
       hook[p].code = 0

\* a step in which getQueueSize of process p returns
SizeReturns(p) ==
  nops' # nops /\ pc' = pc /\ last'.kind = "size" /\ last'.proc = p
Unreadable(d) == d # NoFile /\ JsonParse(d) = ParseError

\* C20: a call of getQueueSize returns in one step that leaves the lock file,
\* the document and every operation in progress as they were; it returns the
\* number of messages the document holds, and 0 when the document is absent
\* or cannot be parsed; with no operation in progress and no drain so far
\* that number counts the initial messages and the enqueues.
C20_SizeUnlocked ==
  /\ [][\A p \in Procs :
          SizeReturns(p) =>
            /\ lock' = lock /\ doc' = doc
            /\ op' = op /\ i' = i /\ msgs' = msgs
            /\ result'[p].status = "ok"
            /\ (doc = NoFile \/ Unreadable(doc)) =>
                 result'[p].value = Num(0)
            /\ ValidDoc(doc) => result'[p].value = Num(Len(Stored))]_vars
  /\ [](\A p \in Procs :
          (/\ Quiet /\ last.kind = "size" /\ last.proc = p
           /\ (doc0 = NoFile \/ ValidDoc(doc0))
           /\ got = <<>>) =>
             result[p].value = Num(Len(Stored0 \o enq)))

\* C20 witness: getQueueSize returned the stored count to one process while
\* another process was holding the lock.
C20_Witness ==
  \E p, q \in Procs :
    /\ last.kind = "size" /\ last.proc = p
    /\ result[p] = Returned("size", Num(1))
    /\ InCS(q) /\ lock.present /\ lock.owner = q

\* what the queue holds when the operations so far ran one after another
Remaining == SubSeq(Stored0 \o enq, Len(got) + 1, Len(Stored0 \o enq))

\* C21: with operations issued one after another by any of the processes,
\* a peek returns the current content of the document, which holds the
\* message of the last enqueue whichever process enqueued it; a drain
\* returns what the earlier operations of all processes left, an enqueue
\* appends to it, and size returns the count of the current content.
C21_NoCaching ==
  /\ \A q \in Procs :
       (pc[q] = "release" /\ op[q].kind = "peek") =>
          /\ Outcome("peek", err[q], msgs[q]) =
               Returned("peek", ReadMessages(doc))
          /\ Items(msgs[q]) = Remaining
          /\ (last.kind = "add" /\ last.status = "ok") =>
               \E k \in 1..Len(msgs[q].items) : msgs[q].items[k] = enq[Len(enq)]
  /\ \A q \in Procs :
       (pc[q] = "release" /\ op[q].kind = "drain" /\ err[q] = NoErr) =>
          Items(msgs[q]) = Remaining
  /\ \A q \in Procs :
       (pc[q] = "release" /\ op[q].kind = "add" /\ err[q] = NoErr) =>
          Stored = Append(Remaining, Msg(op[q].text, op[q].at))
  /\ (Quiet /\ last.kind = "size") =>
       result[last.proc] = Returned("size", GetQueueSize(doc))

\* C21 witness: one process enqueued and another process's peek is about to
\* return the message.
C21_Witness ==
  \E p, q \in Procs :
    /\ p # q
    /\ last = [kind |-> "add", status |-> "ok", proc |-> p]
    /\ pc[q] = "release" /\ op[q].kind = "peek"
    /\ Len(msgs[q].items) >= 1

\* C22: the first enqueue on a document that is not a serialized message
\* sequence, once it holds the lock and the file can be written, succeeds
\* and leaves the document holding exactly its message.
C22_MalformedNeverBricks ==
  \A p \in Procs :
    (/\ pc[p] = "release" /\ op[p].kind = "add"
     /\ nops = 1
     /\ doc0 # NoFile /\ ~ValidDoc(doc0)
     /\ err[p] # WriteError) =>
       /\ err[p] = NoErr
       /\ doc = Stringify(<<Msg(op[p].text, op[p].at)>>)

\* the step in which the enqueue of process p writes the document
AddWrites(p) ==
  /\ pc[p] = "write" /\ op[p].kind = "add"
  /\ pc'[p] = "release" /\ err'[p] = NoErr

\* C23: the write of every enqueue leaves the document as it was with the
\* one new message appended at the end, also with concurrent producers
\* (stated for the runs in which no holder stalls past the threshold).
C23_AppendOnly ==
  [][\A p \in Procs :
       (AddWrites(p) /\ ~stalled) =>
          Stored' = Append(Stored, Msg(op[p].text, now))]_vars

\* C24: from an absent or valid document, in every state reached by
\* concurrent enqueues, drains and peeks, crashes included, the document is
\* absent or the serialization of a message sequence.
C24_DocumentValid == doc = NoFile \/ ValidDoc(doc)

\* the write of process p, of the given kind of operation, takes effect
Writes(p, kind) ==
  /\ op[p].kind = kind
  /\ pc[p] \in {"write", "writing"} /\ pc'[p] # pc[p]

\* C25: no step removes the document; the step that creates it is the write
\* of an enqueue; and the step that makes its content the empty sequence is
\* the write of a drain that read a non-empty sequence.
C25_DocumentLifecycle ==
  [][/\ doc # NoFile => doc' # NoFile
     /\ (doc = NoFile /\ doc' # NoFile) => \E p \in Procs : Writes(p, "add")
     /\ (doc' = Stringify(<<>>) /\ doc # doc') =>
          \E p \in Procs : Writes(p, "drain") /\ LengthPositive(msgs[p])]_vars

\* C25 witness: the document was absent, an enqueue created it and a drain
\* that returned the message emptied it.
C25_Witness ==
  /\ doc0 = NoFile
  /\ doc = Stringify(<<>>)
  /\ Len(got) = 1 /\ got = enq

\* C26: the first enqueue, drain or peek on a document that cannot be read
\* ends with an error, with the lock released and the document as it was;
\* and an operation of which the write failed ends with that error, the
\* lock released and the document as it was.
C26_StorageFailureIsHard ==
  \A p \in Procs :
    (/\ nops = 1 /\ pc[p] = "idle"
     /\ result[p].kind \in {"add", "drain", "peek"}) =>
       /\ doc0 = NoAccess =>
            /\ result[p].status = "throw"
            /\ doc = doc0
       /\ result[p].status = "throw" =>
            /\ doc = doc0
            /\ ~(lock.present /\ lock.owner = p)

\* a document in which a drain finds nothing
NothingToDrain(d) == d = NoFile \/ d = Stringify(<<>>) \/ Unreadable(d)

\* C27: a drain that reads a document that is absent, holds the empty
\* sequence or does not parse goes straight to its release, returns the
\* empty sequence, and neither its read nor its release changes the
\* document.
C27_DrainWritesOnlyNonEmpty ==
  [][\A p \in Procs :
       op[p].kind = "drain" =>
         /\ (pc[p] = "read" /\ pc'[p] # "read" /\ NothingToDrain(doc)) =>
              /\ pc'[p] = "release"
              /\ doc' = doc
              /\ Outcome("drain", err'[p], msgs'[p]) =
                   Returned("drain", JArr(<<>>))
         /\ (pc[p] = "release" /\ pc'[p] = "idle") =>
              /\ doc' = doc
              /\ result'[p] = Outcome("drain", err[p], msgs[p])]_vars

\* C27 witness: a drain returned the empty sequence from a document that
\* does not parse, and the document is as it was.
C27_Witness ==
  \E p \in Procs :
    /\ Quiet /\ nops = 1
    /\ last = [kind |-> "drain", status |-> "ok", proc |-> p]
    /\ result[p] = Returned("drain", JArr(<<>>))
    /\ Unreadable(doc) /\ doc = doc0

\* C28: an acquirer enters its backoff only from an exclusive create that
\* failed because the lock file was there, and gives up only after
\* MaxRetries such creates.
C28_BackoffOnlyAfterCreate ==
  [][\A p \in Procs :
       (pc[p] # "sleep" /\ pc'[p] = "sleep") =>
          (pc[p] = "create" /\ lock.present)]_vars

\* C29: whenever an acquirer unlinks the lock file as stale, the file it
\* removes is older than StaleMs, for every interleaving of the acquirers.
C29_ReclaimOnlyStale ==
  [][\A p \in Procs :
       (pc[p] = "unlink" /\ pc'[p] = "create" /\ lock.present) =>
          now - lock.mtime > StaleMs]_vars

\* C30: the lock file an operation's release removes is the one that
\* operation created.
C30_ReleaseOwnLock ==
  [][\A p \in Procs :
       (pc[p] = "release" /\ pc'[p] = "idle" /\ lock.present) =>
          lock.owner = p]_vars

\* the lock file a crashed holder left behind
AbandonedLock == lock.present /\ lock.owner = 0
\* the age the lock file had when the operation of p started, given that
\* BackoffMs pass per attempt made
StartAge(p) == LockAge - i[p] * BackoffMs

\* C31: with 20 attempts, a 100 ms backoff after each failed attempt and the
\* 5000 ms threshold, an operation waits 100 ms per failed attempt and so at
\* most 2000 ms in total; an operation that started while an abandoned lock
\* file was younger than 3000 ms leaves the file in place, never obtains
\* the lock and ends with "Could not acquire queue lock"; an attempt fails
\* only against a lock file of age 5000 ms or less, so an operation that
\* started once the file was older makes no second attempt.
C31_RetryBudget ==
  [][\A p \in Procs :
       Acquiring(p) =>
         /\ pc'[p] # "idle" => now' - now = (i'[p] - i[p]) * BackoffMs
         /\ i[p] * BackoffMs <= BudgetMs
         /\ pc'[p] = "idle" => i[p] * BackoffMs = BudgetMs
         /\ (AbandonedLock /\ StartAge(p) < StaleMs - BudgetMs) =>
              /\ lock' = lock
              /\ pc'[p] \notin {"unlink", "read"}
              /\ pc'[p] = "idle" =>
                   result'[p] = Thrown(op[p].kind, LockError)
         /\ pc'[p] = "sleep" => (lock.present /\ LockAge <= StaleMs)
         /\ (AbandonedLock /\ StartAge(p) > StaleMs) =>
              (i[p] = 0 /\ pc'[p] \in {"stat", "unlink", "create"})]_vars

\* C31 witness: an operation that started against an abandoned lock file
\* aged 2900 ms gave up after 2000 ms, the file still in place.
C31_Witness ==
  /\ Quiet /\ nops = 1 /\ last.status = "throw"
  /\ LastResult = Thrown(last.kind, LockError)
  /\ lock = LockAged(StaleMs - BudgetMs - BackoffMs)
  /\ now = BudgetMs

\* the banner, then the lines [1/N] .. [N/N], N >= 1, then the footer
CompleteBlock(s) ==
  /\ Len(s) >= 3
  /\ s[1] = Banner
  /\ \A k \in 2..(Len(s) - 1) : s[k].idx = k - 1 /\ s[k].of = Len(s) - 2
  /\ s[Len(s)] = Footer
PreStepExited(p) == hook[p].cmd = "pre" /\ hook[p].phase = "exited"

\* C32: a pre-step hook that has exited wrote to stderr exactly when its
\* exit code is 2, whatever the document and the lock file were: it wrote
\* nothing when the code is 0, and the complete block of banner, numbered
\* lines and footer when the code is 2.
C32_OutputAgreesWithCode ==
  \A p \in Procs :
    PreStepExited(p) =>
      /\ hook[p].code \in {0, 2}
      /\ hook[p].code = 0 => Len(hook[p].stderr) = 0
      /\ hook[p].code = 2 => CompleteBlock(hook[p].stderr)

\* nothing was written, or the banner alone
NoMessageLines(h) == Len(h.stdout) + Len(h.stderr) <= 1
InHookCall(p) == hook[p].phase = "call" /\ hook[p].cmd \in {"pre", "post"}

\* C33: a hook invocation of either variant changes the queue document only
\* by the write of its own drain, and only when the messages that drain
\* hands back make the hook emit message lines: a hook that ends without
\* message lines (empty drain, lock unavailable, any other error) leaves the
\* document as it found it.
C33_RemovesOnlyReported ==
  [][\A p \in Procs :
       InHookCall(p) =>
         /\ doc' # doc =>
              /\ pc[p] = "write"
              /\ ~NoMessageLines(
                    Dispatch(hook[p].cmd, Returned("drain", msgs[p])))
         /\ (pc[p] = "release" /\ pc'[p] = "idle" /\ err[p] = NoErr) =>
              result'[p] = Returned("drain", msgs[p])]_vars

BothQueued ==
  /\ Quiet
  /\ result[LineA] = Returned("add", Undefined)
  /\ result[LineB] = Returned("add", Undefined)

\* C34: when the producer called enqueue for line a before it called enqueue
\* for line b and both calls returned, a precedes b in the queue document:
\* the document is what it was, then a, then b.
C34_ProducerOrder ==
  BothQueued =>
    Texts_(Stored) = Texts_(Stored0) \o <<"a", "b">>

\* the hook entries a settings file holds: event, position of the matcher
\* entry, position in its hooks, the hook itself
Events(v) ==
  IF v.t = "obj" /\ Get(v, "hooks").t = "obj" THEN DOMAIN v.hooks \ {"t"}
  ELSE {}
Matchers(v, ev) == IF v.hooks[ev].t = "arr" THEN v.hooks[ev].items ELSE <<>>
HooksIn(e) == IF Get(e, "hooks").t = "arr" THEN e.hooks.items ELSE <<>>
HookEntries(file) ==
  IF file.k # "text" THEN {}
  ELSE UNION {UNION {{<<ev, k, j, HooksIn(Matchers(file.v, ev)[k])[j]>> :
                       j \in 1..Len(HooksIn(Matchers(file.v, ev)[k]))} :
                     k \in 1..Len(Matchers(file.v, ev))} :
              ev \in Events(file.v)}
SidecarEntries(file) == {x \in HookEntries(file) : x[4] = SidecarHook}

\* an init run by p is this step; a run that reported success is recorded
InitRuns(p) == nops' = nops + 1 /\ hook'[p] # hook[p] /\ hook'[p].cmd = "init"
Succeeded(h) == h.cmd = "init" /\ h.phase = "exited" /\ h.stdout = <<Configured>>
InitSucceeded == \E q \in Procs : Succeeded(hook[q])

\* C35: an init run after one that succeeded finds the command configured,
\* leaves the settings as they are and exits 0; a run that writes the
\* settings adds exactly one "claude-sidecar hook" entry and keeps every
\* hook entry the settings held.
C35_InitIdempotentAdditive ==
  [][\A p \in Procs :
       InitRuns(p) =>
         /\ InitSucceeded =>
              /\ hook'[p].stdout = <<Already>>
              /\ hook'[p].code = 0
              /\ settings' = settings
         /\ (settings'.file # settings.file \/ Succeeded(hook'[p])) =>
              /\ HookEntries(settings.file) \subseteq HookEntries(settings'.file)
              /\ Cardinality(SidecarEntries(settings'.file))
                   = Cardinality(SidecarEntries(settings.file)) + 1]_vars

VoiceCall(name) == voice'.calls = voice.calls + 1 /\ voice'.last.op = name

\* C36: a call of startListening with the API key unset, whatever `which`
\* finds of sox and ffmpeg, reports that the OpenAI API key is not
\* configured, opens no connection, leaves isListening false and enqueues
\* nothing; a call of stopListening while not listening changes no field and
\* logs nothing.
C36_VoiceWithoutCredential ==
  [][/\ (VoiceCall("start") /\ ~voice.key) =>
          /\ voice'.log = Append(voice.log, KeyNotConfigured)
          /\ voice'.sockets = voice.sockets /\ voice'.ws = voice.ws
          /\ ~voice'.isListening
          /\ nops' = nops /\ doc' = doc /\ pc' = pc
     /\ (VoiceCall("stop") /\ ~voice.isListening) =>
          [voice' EXCEPT !.calls = voice.calls, !.last = voice.last] = voice
    ]_vars

====
